---- MODULE Spec2Model ----
(***************************************************************************)
(* Runtime path authoring and persistence of ETTIway (src/app/js/map.js):  *)
(* the draw session (enableDrawMode .. exportCurrentPath), the runtime     *)
(* path store window.runtimePaths with its localStorage copy, and the      *)
(* page reload that starts a new session.                                  *)
(*                                                                         *)
(* Coordinates are integers in units of 1e-7 degree, so that toFixed(6)    *)
(* has a digit to round away.  A JSON document is modelled by its kind     *)
(* and, for an array, by the objects in it; JSON.stringify drops the keys  *)
(* whose value is undefined and JSON.parse reads a missing key back as     *)
(* undefined.                                                              *)
(***************************************************************************)
EXTENDS Integers, Sequences, FiniteSets, TLC

\* ---------------------------------------------------------------- bounds
MaxDraft == 2
MaxStore == 2
MaxCounter == 1
MaxTally == 3

\* ------------------------------------------------------------- constants
\* the value of a property that is not there
Undefined == "undefined"

\* Date.now() of the model: far above every value of _drawIdCounter
NowBase == 1000
Timestamps == {NowBase, NowBase + 1}

\* e.latlng of the map clicks: (45.0, 21.0) and (45.1000004, -21.1000005)
ClickPoints == {<<450000000, 210000000>>, <<451000004, -211000005>>}

\* the objects handed to window.addPathObject by a caller other than export
AddInputs ==
    { [truthy |-> TRUE, isArray |-> TRUE, id |-> "p1", type |-> Undefined,
       points |-> << <<10000000, 10000000>> >>],
      [truthy |-> TRUE, isArray |-> TRUE, id |-> Undefined, type |-> "pedestrian",
       points |-> << <<910000000, 10000000>> >>],
      [truthy |-> TRUE, isArray |-> TRUE, id |-> "p2", type |-> "pedestrian",
       points |-> << >>],
      [truthy |-> TRUE, isArray |-> FALSE, id |-> "p3", type |-> Undefined,
       points |-> << >>],
      [truthy |-> FALSE, isArray |-> FALSE, id |-> Undefined, type |-> Undefined,
       points |-> << >>] }

\* the ids handed to window.removePathById
RemoveIds == {"", "p1", "p2", "path_1", "path_2", "path_1000"}

\* what localStorage may hold under STORAGE_KEY before the first session
StorageAbsent == [kind |-> "absent", items |-> << >>]
StorageNotJson == [kind |-> "notjson", items |-> << >>]
StorageNonArray == [kind |-> "object", items |-> << >>]
InitialStorage == {StorageAbsent, StorageNotJson, StorageNonArray}

VARIABLES
    campusMap,          \* TRUE once initializeMap has run
    drawModeEnabled,
    currentPathPoints,
    mapClickHandler,    \* TRUE while _mapClickHandler is attached to the map
    currentPolyline,    \* the draft overlay: whether the wrapper exists, its latlngs
    drawIdCounter,
    runtimePaths,       \* window.runtimePaths
    storage,            \* localStorage[STORAGE_KEY]
    pendingExports,     \* payloads of the exports suspended at await writeText
                        \* (never more than the session's exports, MaxCounter)
    storageFailed,      \* a localStorage access of this session has thrown
    loadedRaw,          \* kind of value the session's load saw ("throws": getItem threw)
    result,             \* the last handler: its name, whether an exception escaped
                        \* it, the pathsUpdated events it dispatched, the text
                        \* it passed to _showDrawMessage ("" for none), whether a
                        \* localStorage access threw inside it, how many
                        \* records it took out of window.runtimePaths, how many
                        \* points it took out of the draft, whether it changed
                        \* drawModeEnabled
    tally,              \* when on: the accepted clicks, the undos that removed a
                        \* point and the clear calls of the session
    capacity,           \* the number of records the store is explored up to
    clickListeners,     \* the number of 'click' listeners attached to campusMap
    drawnLines,         \* the latlngs of the wrappers earlier start() calls left on
                        \* drawnPathsLayer (followed where the calls are counted)
    runtimePathLayers,  \* _runtimePathLayers: the wrappers on missingRoadsLayer
                        \* registered under an id, each with its latlngs
    orphanLayers,       \* the wrappers of runtime paths on missingRoadsLayer that
                        \* _runtimePathLayers no longer refers to
    listRows,           \* the sidebar list: whether it was created, its rows
    editUi,             \* the toggles and draw buttons: whether they were created,
                        \* drawnPathsLayer on the map, the five buttons enabled
    tabB,               \* a second tab on the same storage key: whether it is
                        \* open, its window.runtimePaths
    layersFollowed      \* whether the wrappers on missingRoadsLayer are followed

vars == <<campusMap, drawModeEnabled, currentPathPoints, mapClickHandler,
          currentPolyline, drawIdCounter, runtimePaths, storage, pendingExports,
          storageFailed, loadedRaw, result, tally, capacity, clickListeners,
          drawnLines, runtimePathLayers, orphanLayers, listRows, editUi, tabB,
          layersFollowed>>

drawView == <<clickListeners, drawnLines>>
storeView == <<runtimePathLayers, orphanLayers, listRows>>
pageVars == <<editUi, tabB, layersFollowed>>
drawVars == <<drawModeEnabled, currentPathPoints, mapClickHandler, currentPolyline,
              drawIdCounter, pendingExports, tally>>
storeVars == <<runtimePaths, storage, storageFailed, loadedRaw>>

Outcome(op, threw, dispatched, msg, fault) ==
    [op |-> op, threw |-> threw, dispatched |-> dispatched, msg |-> msg,
     fault |-> fault, removed |-> 0, dropped |-> 0, switched |-> FALSE]

Removing(outcome, n) == [outcome EXCEPT !.removed = n]
Dropping(outcome, n) == [outcome EXCEPT !.dropped = n]
Switching(outcome) == [outcome EXCEPT !.switched = TRUE]

\* currentPolyline: null, or the wrapper made by createBorderedPolyline
NoPolyline == [exists |-> FALSE, latlngs |-> << >>]
Polyline(latlngs) == [exists |-> TRUE, latlngs |-> latlngs]

\* wrapper.setLatLngs(arr) under "if (currentPolyline)"
SetLatLngs(polyline, arr) == IF polyline.exists THEN Polyline(arr) ELSE polyline

NoTally(on) == [on |-> on, clicks |-> 0, undos |-> 0, clears |-> 0]
Counted(t, what) ==
    IF ~t.on THEN t
    ELSE [t EXCEPT ![what] = @ + 1]
CanCount(t, what) == t.on => t[what] < MaxTally

\* enableDrawMode assigns a new wrapper to currentPolyline: the one it held
\* stays on drawnPathsLayer with the latlngs it had
Abandon(lines, t, polyline) ==
    IF t.on /\ polyline.exists THEN lines \cup {polyline.latlngs} ELSE lines

\* a wrapper on missingRoadsLayer
Layer(id, points) == [id |-> id, points |-> points]

\* _runtimePathLayers[id] = wrapper: the wrapper the id referred to before
\* stays on the layer
Register(followed, layers, id, points) ==
    IF ~followed
    THEN layers
    ELSE [registered |-> {w \in layers.registered : w.id # id}
                            \cup {Layer(id, points)},
          orphans |-> layers.orphans \cup {w \in layers.registered : w.id = id}]

\* wrapper.remove() and delete _runtimePathLayers[id], for the ids given
Unregister(registered, ids) == {w \in registered : w.id \notin ids}

NoList == [exists |-> FALSE, rows |-> << >>]
NoEditUi == [created |-> FALSE, layerVisible |-> FALSE, buttonsEnabled |-> FALSE]
NoTab == [open |-> FALSE, paths |-> << >>]

\* ------------------------------------------------------- pure functions
Abs(x) == IF x < 0 THEN -x ELSE x

\* parseFloat(x.toFixed(6)): nearest multiple of 1e-6, ties away from zero
Round6(x) == (IF x < 0 THEN -1 ELSE 1) * ((Abs(x) + 5) \div 10) * 10

PathId(n) == "path_" \o ToString(n)

Falsy(v) == v \in {Undefined, ""}

\* the guard of exportCurrentPath left out
HasNoPointsNever(points) == FALSE

HasNoPoints(points) == Len(points) = 0

\* the payload built from the raw click coordinates
ExportPayloadUnrounded(points, counter) ==
    [id |-> PathId(counter), type |-> "pedestrian", points |-> points]


ExportPayload(points, counter) ==
    [id |-> PathId(counter),
     type |-> "pedestrian",
     points |-> [i \in 1..Len(points) |->
                    <<Round6(points[i][1]), Round6(points[i][2])>>]]

\* JSON.stringify of one record / JSON.parse of one object
StringifyRecord(r) ==
    [keys |-> {"id", "points"} \cup (IF r.type = Undefined THEN {} ELSE {"type"}),
     id |-> r.id,
     type |-> IF r.type = Undefined THEN "" ELSE r.type,
     points |-> r.points]

ParseRecord(j) ==
    [id |-> j.id,
     type |-> IF "type" \in j.keys THEN j.type ELSE Undefined,
     points |-> j.points]

StringifyPaths(paths) ==
    [kind |-> "array", items |-> [i \in 1..Len(paths) |-> StringifyRecord(paths[i])]]

\* the load without its try/catch
LoadWithoutCatch(raw, readOk) ==
    IF ~readOk \/ raw.kind = "notjson" THEN [value |-> << >>, threw |-> TRUE]
    ELSE IF raw.kind # "array" THEN [value |-> << >>, threw |-> FALSE]
    ELSE [value |-> [i \in 1..Len(raw.items) |-> ParseRecord(raw.items[i])],
          threw |-> FALSE]

\* loadRuntimePathsFromStorage: the value returned and whether it threw
LoadRuntimePathsFromStorage(raw, readOk) ==
    IF ~readOk THEN [value |-> << >>, threw |-> FALSE]
    ELSE IF raw.kind = "absent" THEN [value |-> << >>, threw |-> FALSE]
    ELSE IF raw.kind = "notjson" THEN [value |-> << >>, threw |-> FALSE]
    ELSE IF raw.kind # "array" THEN [value |-> << >>, threw |-> FALSE]
    ELSE [value |-> [i \in 1..Len(raw.items) |-> ParseRecord(raw.items[i])],
          threw |-> FALSE]

\* a save that writes nothing
SaveNothing(paths, old, writeOk) == old

\* saveRuntimePathsToStorage: the stored value after it
SaveRuntimePathsToStorage(paths, old, writeOk) ==
    IF writeOk THEN StringifyPaths(paths) ELSE old

\* the key written as the old value instead of removed
KeepStorageKey(old, writeOk) == old

\* localStorage.removeItem(STORAGE_KEY) inside its try
RemoveStorageKey(old, writeOk) ==
    IF writeOk THEN StorageAbsent ELSE old

\* addPathObject up to its push: is the object accepted, and as what record
AddAccepts(obj) == obj.truthy /\ obj.isArray

AddRecord(obj, now) ==
    [id |-> IF Falsy(obj.id) THEN PathId(now) ELSE obj.id,
     type |-> obj.type,
     points |-> obj.points]

\* (window.runtimePaths || []).findIndex(p => p.id === id), 0 for -1
FindIndex(paths, id) ==
    IF \E i \in 1..Len(paths) : paths[i].id = id
    THEN CHOOSE i \in 1..Len(paths) :
            /\ paths[i].id = id
            /\ \A j \in 1..(i - 1) : paths[j].id # id
    ELSE 0

\* a removal that fills the hole with the last record
SpliceSwap(paths, idx) ==
    IF idx = Len(paths)
    THEN SubSeq(paths, 1, Len(paths) - 1)
    ELSE [i \in 1..(Len(paths) - 1) |-> IF i = idx THEN paths[Len(paths)] ELSE paths[i]]

\* window.runtimePaths.splice(idx, 1)
Splice(paths, idx) ==
    [i \in 1..(Len(paths) - 1) |-> IF i < idx THEN paths[i] ELSE paths[i + 1]]

RemoveFromPaths(paths, id) ==
    IF FindIndex(paths, id) = 0 THEN paths ELSE Splice(paths, FindIndex(paths, id))

\* removePathById(id): window.runtimePaths and the stored value after it
RemovePathByIdResult(paths, stored, id, writeOk) ==
    IF Falsy(id)
    THEN [paths |-> paths, storage |-> stored]
    ELSE [paths |-> RemoveFromPaths(paths, id),
          storage |-> SaveRuntimePathsToStorage(RemoveFromPaths(paths, id), stored, writeOk)]

\* ---------------------------------------------------------- the session
\* script load of map.js (lines 327-331, 572) at the start of a session
SessionStart(raw, readOk) ==
    /\ campusMap' = FALSE
    /\ drawModeEnabled' = FALSE
    /\ currentPathPoints' = << >>
    /\ mapClickHandler' = FALSE
    /\ currentPolyline' = NoPolyline
    /\ tally' = NoTally(tally.on)
    /\ UNCHANGED capacity
    /\ drawIdCounter' = 1
    /\ runtimePaths' = LoadRuntimePathsFromStorage(raw, readOk).value
    /\ pendingExports' = << >>
    /\ storageFailed' = ~readOk
    /\ loadedRaw' = IF readOk THEN raw.kind ELSE "throws"
    /\ result' = Outcome("load", LoadRuntimePathsFromStorage(raw, readOk).threw, 0, "",
                        ~readOk)
    /\ clickListeners' = 0
    /\ drawnLines' = {}
    /\ runtimePathLayers' = {}
    /\ orphanLayers' = {}
    /\ listRows' = NoList
    /\ editUi' = NoEditUi
    /\ UNCHANGED <<tabB, layersFollowed>>

InitWith(cap, tallyOn, layersOn) ==
    /\ layersFollowed = layersOn
    /\ capacity = cap
    /\ tally = NoTally(tallyOn)
    /\ currentPolyline = NoPolyline
    /\ storage \in InitialStorage
    /\ campusMap = FALSE
    /\ drawModeEnabled = FALSE
    /\ currentPathPoints = << >>
    /\ mapClickHandler = FALSE
    /\ drawIdCounter = 1
    /\ runtimePaths = LoadRuntimePathsFromStorage(storage, TRUE).value
    /\ pendingExports = << >>
    /\ storageFailed = FALSE
    /\ loadedRaw = storage.kind
    /\ result = Outcome("load", LoadRuntimePathsFromStorage(storage, TRUE).threw, 0, "",
                       FALSE)
    /\ clickListeners = 0
    /\ drawnLines = {}
    /\ runtimePathLayers = {}
    /\ orphanLayers = {}
    /\ listRows = NoList
    /\ editUi = NoEditUi
    /\ tabB = NoTab

Init == InitWith(MaxStore, FALSE, FALSE)

\* the page is reloaded: a new session over the same localStorage
Reload(readOk) ==
    /\ SessionStart(storage, readOk)
    /\ UNCHANGED storage

InitializeMap ==
    /\ ~campusMap
    /\ campusMap' = TRUE
    /\ result' = Outcome("initializeMap", FALSE, 0, "", FALSE)
    /\ UNCHANGED <<currentPolyline, tally, capacity>>
    /\ UNCHANGED <<drawModeEnabled, currentPathPoints, mapClickHandler, drawIdCounter,
                   runtimePaths, storage, pendingExports, storageFailed, loadedRaw>>
    /\ UNCHANGED <<drawView, storeView, pageVars>>

\* ------------------------------------------------- draw session controller
\* a start() that goes to Drawing without emptying the draft
EnableDrawModeKeepingDraft ==
    /\ IF ~campusMap \/ drawModeEnabled
       THEN /\ result' = Outcome("start", FALSE, 0, "", FALSE)
            /\ UNCHANGED <<drawModeEnabled, currentPathPoints, mapClickHandler,
                           currentPolyline, drawView>>
       ELSE /\ result' = Switching(Outcome("start", FALSE, 0, "", FALSE))
            /\ drawModeEnabled' = TRUE
            /\ currentPolyline' = Polyline(currentPathPoints)
            /\ mapClickHandler' = TRUE
            /\ clickListeners' = clickListeners + 1
            /\ drawnLines' = Abandon(drawnLines, tally, currentPolyline)
            /\ UNCHANGED currentPathPoints
    /\ UNCHANGED <<tally, capacity>>
    /\ UNCHANGED <<campusMap, drawIdCounter, runtimePaths, storage, pendingExports,
                   storageFailed, loadedRaw>>
    /\ UNCHANGED <<storeView, pageVars>>

\* a start() without the "already drawing" return
EnableDrawModeAgain ==
    /\ IF ~campusMap
       THEN /\ result' = Outcome("start", FALSE, 0, "", FALSE)
            /\ UNCHANGED <<drawModeEnabled, currentPathPoints, mapClickHandler,
                           currentPolyline, drawView>>
       ELSE /\ result' = Dropping(IF drawModeEnabled
                                  THEN Outcome("start", FALSE, 0, "", FALSE)
                                  ELSE Switching(Outcome("start", FALSE, 0, "", FALSE)),
                                  Len(currentPathPoints))
            /\ drawModeEnabled' = TRUE
            /\ currentPathPoints' = << >>
            /\ currentPolyline' = Polyline(<< >>)
            /\ mapClickHandler' = TRUE
            /\ clickListeners' = clickListeners + 1
            /\ drawnLines' = Abandon(drawnLines, tally, currentPolyline)
    /\ UNCHANGED <<tally, capacity>>
    /\ UNCHANGED <<campusMap, drawIdCounter, runtimePaths, storage, pendingExports,
                   storageFailed, loadedRaw>>
    /\ UNCHANGED <<storeView, pageVars>>

EnableDrawMode ==
    /\ IF ~campusMap \/ drawModeEnabled
       THEN /\ result' = Outcome("start", FALSE, 0, "", FALSE)
            /\ UNCHANGED <<drawModeEnabled, currentPathPoints, mapClickHandler,
                           currentPolyline, drawView>>
       ELSE /\ result' = Switching(Dropping(Outcome("start", FALSE, 0, "", FALSE),
                                            Len(currentPathPoints)))
            /\ drawModeEnabled' = TRUE
            /\ currentPathPoints' = << >>
            /\ currentPolyline' = Polyline(<< >>)
            /\ mapClickHandler' = TRUE
            /\ clickListeners' = clickListeners + 1
            /\ drawnLines' = Abandon(drawnLines, tally, currentPolyline)
    /\ UNCHANGED <<tally, capacity>>
    /\ UNCHANGED <<campusMap, drawIdCounter, runtimePaths, storage, pendingExports,
                   storageFailed, loadedRaw>>
    /\ UNCHANGED <<storeView, pageVars>>

\* a stop() that leaves the click handler on the map
DisableDrawModeKeepingHandler ==
    /\ IF ~drawModeEnabled
       THEN /\ result' = Outcome("stop", FALSE, 0, "", FALSE)
            /\ UNCHANGED drawModeEnabled
       ELSE /\ result' = Switching(Outcome("stop", FALSE, 0, "", FALSE))
            /\ drawModeEnabled' = FALSE
    /\ UNCHANGED <<currentPolyline, tally, capacity>>
    /\ UNCHANGED <<campusMap, currentPathPoints, mapClickHandler, drawIdCounter,
                   runtimePaths, storage, pendingExports, storageFailed, loadedRaw>>
    /\ UNCHANGED <<drawView, storeView, pageVars>>

\* a stop() that throws the draft away
DisableDrawModeClearing ==
    /\ IF ~drawModeEnabled
       THEN /\ result' = Outcome("stop", FALSE, 0, "", FALSE)
            /\ UNCHANGED clickListeners
            /\ UNCHANGED <<drawModeEnabled, mapClickHandler, currentPathPoints,
                           currentPolyline>>
       ELSE /\ result' = Switching(Dropping(Outcome("stop", FALSE, 0, "", FALSE),
                                            Len(currentPathPoints)))
            /\ drawModeEnabled' = FALSE
            /\ mapClickHandler' = FALSE
            /\ clickListeners' = IF mapClickHandler THEN clickListeners - 1
                                                   ELSE clickListeners
            /\ currentPathPoints' = << >>
            /\ currentPolyline' = SetLatLngs(currentPolyline, << >>)
    /\ UNCHANGED <<tally, capacity>>
    /\ UNCHANGED <<campusMap, drawIdCounter, runtimePaths, storage, pendingExports,
                   storageFailed, loadedRaw>>
    /\ UNCHANGED <<drawnLines, storeView, pageVars>>

\* a stop() that forgets its handler without taking it off the map
DisableDrawModeLeavingListener ==
    /\ IF ~drawModeEnabled
       THEN /\ result' = Outcome("stop", FALSE, 0, "", FALSE)
            /\ UNCHANGED <<drawModeEnabled, mapClickHandler>>
       ELSE /\ result' = Switching(Outcome("stop", FALSE, 0, "", FALSE))
            /\ drawModeEnabled' = FALSE
            /\ mapClickHandler' = FALSE
    /\ UNCHANGED <<currentPolyline, tally, capacity>>
    /\ UNCHANGED <<campusMap, currentPathPoints, drawIdCounter, runtimePaths, storage,
                   pendingExports, storageFailed, loadedRaw>>
    /\ UNCHANGED <<drawView, storeView, pageVars>>

DisableDrawMode ==
    /\ IF ~drawModeEnabled
       THEN /\ result' = Outcome("stop", FALSE, 0, "", FALSE)
            /\ UNCHANGED clickListeners
            /\ UNCHANGED <<drawModeEnabled, mapClickHandler>>
       ELSE /\ result' = Switching(Outcome("stop", FALSE, 0, "", FALSE))
            /\ drawModeEnabled' = FALSE
            /\ mapClickHandler' = FALSE
            /\ clickListeners' = IF mapClickHandler THEN clickListeners - 1
                                                   ELSE clickListeners
    /\ UNCHANGED <<currentPolyline, tally, capacity>>
    /\ UNCHANGED <<campusMap, currentPathPoints, drawIdCounter, runtimePaths, storage,
                   pendingExports, storageFailed, loadedRaw>>
    /\ UNCHANGED <<drawnLines, storeView, pageVars>>

\* a click that is appended whether or not a handler is attached
MapClickAlways(p) ==
    /\ campusMap
    /\ Len(currentPathPoints) < MaxDraft
    /\ CanCount(tally, "clicks")
    /\ result' = Outcome("click", FALSE, 0, "", FALSE)
    /\ currentPathPoints' = Append(currentPathPoints, p)
    /\ currentPolyline' = Polyline(currentPathPoints')
    /\ tally' = Counted(tally, "clicks")
    /\ UNCHANGED capacity
    /\ UNCHANGED <<campusMap, drawModeEnabled, mapClickHandler, drawIdCounter,
                   runtimePaths, storage, pendingExports, storageFailed, loadedRaw>>
    /\ UNCHANGED <<drawView, storeView, pageVars>>

\* a click on the map: every listener attached by enableDrawMode runs, each
\* pushing the point onto currentPathPoints
MapClick(p) ==
    /\ campusMap
    /\ Len(currentPathPoints) + clickListeners <= MaxDraft
    /\ clickListeners > 0 => CanCount(tally, "clicks")
    /\ result' = Outcome("click", FALSE, 0, "", FALSE)
    /\ IF clickListeners > 0
       THEN /\ currentPathPoints' =
                  currentPathPoints \o [k \in 1..clickListeners |-> p]
            /\ currentPolyline' = Polyline(currentPathPoints')
            /\ tally' = Counted(tally, "clicks")
       ELSE UNCHANGED <<currentPathPoints, currentPolyline, tally>>
    /\ UNCHANGED capacity
    /\ UNCHANGED <<campusMap, drawModeEnabled, mapClickHandler, drawIdCounter,
                   runtimePaths, storage, pendingExports, storageFailed, loadedRaw>>
    /\ UNCHANGED <<drawView, storeView, pageVars>>

\* an undo that also pops the last point of the record inserted last, as if
\* the record shared its points array with the draft
UndoAlsoPopsStored ==
    /\ IF Len(currentPathPoints) = 0
       THEN /\ result' = Outcome("undo", FALSE, 0, "", FALSE)
            /\ UNCHANGED <<currentPathPoints, currentPolyline, tally, runtimePaths>>
       ELSE /\ CanCount(tally, "undos")
            /\ result' = Dropping(Outcome("undo", FALSE, 0, "", FALSE), 1)
            /\ currentPathPoints' =
                  SubSeq(currentPathPoints, 1, Len(currentPathPoints) - 1)
            /\ currentPolyline' = SetLatLngs(currentPolyline, currentPathPoints')
            /\ tally' = Counted(tally, "undos")
            /\ runtimePaths' =
                  IF Len(runtimePaths) > 0 /\ Len(runtimePaths[Len(runtimePaths)].points) > 0
                  THEN [runtimePaths EXCEPT ![Len(runtimePaths)].points =
                                               SubSeq(@, 1, Len(@) - 1)]
                  ELSE runtimePaths
    /\ UNCHANGED capacity
    /\ UNCHANGED <<campusMap, drawModeEnabled, mapClickHandler, drawIdCounter,
                   storage, pendingExports, storageFailed, loadedRaw>>
    /\ UNCHANGED <<drawView, storeView, pageVars>>

\* an undo that takes the first point of the draft instead of the last
UndoRemovesFirst ==
    /\ IF Len(currentPathPoints) = 0
       THEN /\ result' = Outcome("undo", FALSE, 0, "", FALSE)
            /\ UNCHANGED <<currentPathPoints, currentPolyline, tally>>
       ELSE /\ CanCount(tally, "undos")
            /\ result' = Dropping(Outcome("undo", FALSE, 0, "", FALSE), 1)
            /\ currentPathPoints' = Tail(currentPathPoints)
            /\ currentPolyline' = SetLatLngs(currentPolyline, currentPathPoints')
            /\ tally' = Counted(tally, "undos")
    /\ UNCHANGED capacity
    /\ UNCHANGED <<campusMap, drawModeEnabled, mapClickHandler, drawIdCounter,
                   runtimePaths, storage, pendingExports, storageFailed, loadedRaw>>
    /\ UNCHANGED <<drawView, storeView, pageVars>>

UndoLastPoint ==
    /\ IF Len(currentPathPoints) = 0
       THEN /\ result' = Outcome("undo", FALSE, 0, "", FALSE)
            /\ UNCHANGED <<currentPathPoints, currentPolyline, tally>>
       ELSE /\ CanCount(tally, "undos")
            /\ result' = Dropping(Outcome("undo", FALSE, 0, "", FALSE), 1)
            /\ currentPathPoints' =
                  SubSeq(currentPathPoints, 1, Len(currentPathPoints) - 1)
            /\ currentPolyline' = SetLatLngs(currentPolyline, currentPathPoints')
            /\ tally' = Counted(tally, "undos")
    /\ UNCHANGED capacity
    /\ UNCHANGED <<campusMap, drawModeEnabled, mapClickHandler, drawIdCounter,
                   runtimePaths, storage, pendingExports, storageFailed, loadedRaw>>
    /\ UNCHANGED <<drawView, storeView, pageVars>>

\* a clear that also ends the drawing session
ClearStopsDrawing ==
    /\ CanCount(tally, "clears")
    /\ result' = Dropping(Outcome("clear", FALSE, 0, "", FALSE), Len(currentPathPoints))
    /\ currentPathPoints' = << >>
    /\ currentPolyline' = SetLatLngs(currentPolyline, << >>)
    /\ drawModeEnabled' = FALSE
    /\ mapClickHandler' = FALSE
    /\ tally' = Counted(tally, "clears")
    /\ UNCHANGED capacity
    /\ UNCHANGED <<campusMap, drawIdCounter, runtimePaths, storage, pendingExports,
                   storageFailed, loadedRaw>>
    /\ clickListeners' = 0
    /\ UNCHANGED <<drawnLines, storeView, pageVars>>

ClearCurrentPath ==
    /\ CanCount(tally, "clears")
    /\ result' = Dropping(Outcome("clear", FALSE, 0, "", FALSE), Len(currentPathPoints))
    /\ currentPathPoints' = << >>
    /\ currentPolyline' = SetLatLngs(currentPolyline, << >>)
    /\ tally' = Counted(tally, "clears")
    /\ UNCHANGED capacity
    /\ UNCHANGED <<campusMap, drawModeEnabled, mapClickHandler, drawIdCounter,
                   runtimePaths, storage, pendingExports, storageFailed, loadedRaw>>
    /\ UNCHANGED <<drawView, storeView, pageVars>>

\* ----------------------------------------------------------------- list
\* rebuild: one row per element of window.runtimePaths, in array order, titled
\* with the id and with the type or 'path'
Rebuild(paths) ==
    [i \in 1..Len(paths) |->
        [id |-> paths[i].id,
         type |-> IF Falsy(paths[i].type) THEN "path" ELSE paths[i].type]]

\* the listener createRuntimePathList adds for 'pathsUpdated': rebuild, once
\* the list exists
OnPathsUpdated(list, paths) ==
    IF list.exists THEN [exists |-> TRUE, rows |-> Rebuild(paths)] ELSE list

\* ------------------------------------------------------------- path store
\* addPathObject(obj) as called by op; escapes says whether that caller lets
\* an exception out (export catches it, a direct call does not); msg is the
\* message the caller has shown before the call
AddToStore(op, obj, now, writeOk, escapes, msg) ==
    IF ~AddAccepts(obj)
    THEN /\ result' = Outcome(op, FALSE, 0, msg, FALSE)
         /\ UNCHANGED <<runtimePaths, storage, storageFailed, storeView>>
    ELSE /\ runtimePaths' = Append(runtimePaths, AddRecord(obj, now))
         /\ storage' = SaveRuntimePathsToStorage(runtimePaths', storage, writeOk)
         /\ storageFailed' = (storageFailed \/ ~writeOk)
            \* L.layerGroup().addTo(campusMap) throws while there is no map
         /\ IF campusMap
            THEN /\ result' = Outcome(op, FALSE, 1, msg, ~writeOk)
                 /\ runtimePathLayers' =
                       Register(layersFollowed,
                                [registered |-> runtimePathLayers,
                                 orphans |-> orphanLayers],
                                AddRecord(obj, now).id,
                                AddRecord(obj, now).points).registered
                 /\ orphanLayers' =
                       Register(layersFollowed,
                                [registered |-> runtimePathLayers,
                                 orphans |-> orphanLayers],
                                AddRecord(obj, now).id,
                                AddRecord(obj, now).points).orphans
                 /\ listRows' = OnPathsUpdated(listRows, runtimePaths')
            ELSE /\ result' = Outcome(op, escapes, 0, msg, ~writeOk)
                 /\ UNCHANGED storeView

AddPathObject(obj, now, writeOk) ==
    /\ AddAccepts(obj) => Len(runtimePaths) < capacity
    /\ AddToStore("add", obj, now, writeOk, TRUE, "")
    /\ UNCHANGED <<currentPolyline, tally, capacity>>
    /\ UNCHANGED <<campusMap, drawModeEnabled, currentPathPoints, mapClickHandler,
                   drawIdCounter, pendingExports, loadedRaw>>
    /\ UNCHANGED <<drawView, pageVars>>

RemovePathById(id, writeOk) ==
    /\ runtimePaths' = RemovePathByIdResult(runtimePaths, storage, id, writeOk).paths
    /\ storage' = RemovePathByIdResult(runtimePaths, storage, id, writeOk).storage
    /\ IF Falsy(id)
       THEN /\ result' = Outcome("remove", FALSE, 0, "", FALSE)
            /\ UNCHANGED <<storageFailed, storeView>>
       ELSE /\ storageFailed' = (storageFailed \/ ~writeOk)
            /\ result' = Removing(Outcome("remove", FALSE, 1, "", ~writeOk),
                                  Len(runtimePaths) - Len(runtimePaths'))
            /\ runtimePathLayers' = Unregister(runtimePathLayers, {id})
            /\ listRows' = OnPathsUpdated(listRows, runtimePaths')
            /\ UNCHANGED orphanLayers
    /\ UNCHANGED <<currentPolyline, tally, capacity>>
    /\ UNCHANGED <<campusMap, drawModeEnabled, currentPathPoints, mapClickHandler,
                   drawIdCounter, pendingExports, loadedRaw>>
    /\ UNCHANGED <<drawView, pageVars>>

ClearPersistedRuntimePaths(writeOk) ==
    /\ storage' = RemoveStorageKey(storage, writeOk)
    /\ storageFailed' = (storageFailed \/ ~writeOk)
    /\ runtimePaths' = << >>
    /\ result' = Removing(Outcome("clearAll", FALSE, 1, "", ~writeOk), Len(runtimePaths))
    /\ UNCHANGED <<currentPolyline, tally, capacity>>
    /\ UNCHANGED <<campusMap, drawModeEnabled, currentPathPoints, mapClickHandler,
                   drawIdCounter, pendingExports, loadedRaw>>
    /\ runtimePathLayers' = {}
    /\ listRows' = OnPathsUpdated(listRows, runtimePaths')
    /\ UNCHANGED orphanLayers
    /\ UNCHANGED <<drawView, pageVars>>

\* ------------------------------------------------------------------ export
AsRecordInput(payload) ==
    [truthy |-> TRUE, isArray |-> TRUE, id |-> payload.id, type |-> payload.type,
     points |-> payload.points]

\* an export that gives up when the clipboard is missing or writeText throws
ExportAbandonedOnClipboardFailure(clipboard, now, writeOk) ==
    IF HasNoPoints(currentPathPoints)
    THEN /\ result' = Outcome("export", FALSE, 0, "No points to export", FALSE)
         /\ UNCHANGED storeView
         /\ UNCHANGED <<currentPolyline, tally, capacity, drawView, pageVars>>
         /\ UNCHANGED <<campusMap, drawModeEnabled, currentPathPoints, mapClickHandler,
                        drawIdCounter, runtimePaths, storage, pendingExports,
                        storageFailed, loadedRaw>>
    ELSE /\ drawIdCounter <= MaxCounter
         /\ drawIdCounter' = drawIdCounter + 1
         /\ UNCHANGED <<currentPolyline, tally, capacity, drawView, pageVars>>
         /\ IF clipboard = "pending"
            THEN /\ pendingExports' = Append(pendingExports,
                                             ExportPayload(currentPathPoints, drawIdCounter))
                 /\ result' = Outcome("exportAwait", FALSE, 0, "", FALSE)
                 /\ UNCHANGED <<runtimePaths, storage, storageFailed, storeView>>
            ELSE /\ result' = Outcome("export", FALSE, 0,
                                      IF clipboard = "none"
                                      THEN "Path exported (clipboard not available)"
                                      ELSE "Exported but clipboard copy failed",
                                      FALSE)
                 /\ UNCHANGED <<runtimePaths, storage, storageFailed, pendingExports,
                                storeView>>
         /\ UNCHANGED <<campusMap, drawModeEnabled, currentPathPoints, mapClickHandler,
                        loadedRaw>>

\* exportCurrentPath up to its first suspension.  clipboard: "none" (no
\* navigator.clipboard), "throws" (writeText throws at the call), "pending"
\* (writeText returns a promise the function awaits)
ExportCurrentPath(clipboard, now, writeOk) ==
    IF HasNoPoints(currentPathPoints)
    THEN /\ result' = Outcome("export", FALSE, 0, "No points to export", FALSE)
         /\ UNCHANGED storeView
         /\ UNCHANGED <<currentPolyline, tally, capacity, drawView, pageVars>>
         /\ UNCHANGED <<campusMap, drawModeEnabled, currentPathPoints, mapClickHandler,
                        drawIdCounter, runtimePaths, storage, pendingExports,
                        storageFailed, loadedRaw>>
    ELSE /\ drawIdCounter <= MaxCounter
         /\ drawIdCounter' = drawIdCounter + 1
         /\ UNCHANGED <<currentPolyline, tally, capacity, drawView, pageVars>>
         /\ IF clipboard = "pending"
            THEN /\ pendingExports' = Append(pendingExports,
                                             ExportPayload(currentPathPoints, drawIdCounter))
                 /\ result' = Outcome("exportAwait", FALSE, 0, "", FALSE)
                 /\ UNCHANGED <<runtimePaths, storage, storageFailed, storeView>>
            ELSE /\ Len(runtimePaths) < capacity
                 /\ AddToStore("export",
                               AsRecordInput(ExportPayload(currentPathPoints, drawIdCounter)),
                               now, writeOk, FALSE,
                               IF clipboard = "none"
                               THEN "Path exported (clipboard not available)"
                               ELSE "Exported but clipboard copy failed")
                 /\ UNCHANGED pendingExports
         /\ UNCHANGED <<campusMap, drawModeEnabled, currentPathPoints, mapClickHandler,
                        loadedRaw>>

\* a resumption that reads the draft again instead of using its payload
ClipboardSettlesReadingDraft(i, copied, now, writeOk) ==
    /\ i \in 1..Len(pendingExports)
    /\ Len(runtimePaths) < capacity
    /\ UNCHANGED <<currentPolyline, tally, capacity>>
    /\ pendingExports' = [k \in 1..(Len(pendingExports) - 1) |->
                            IF k < i THEN pendingExports[k] ELSE pendingExports[k + 1]]
    /\ AddToStore("exportResume",
                  AsRecordInput([pendingExports[i] EXCEPT
                                    !.points = ExportPayload(currentPathPoints, 1).points]),
                  now, writeOk, FALSE,
                  IF copied THEN "Path exported and copied to clipboard"
                            ELSE "Exported but clipboard copy failed")
    /\ UNCHANGED <<campusMap, drawModeEnabled, currentPathPoints, mapClickHandler,
                   drawIdCounter, loadedRaw>>
    /\ UNCHANGED <<drawView, pageVars>>

\* the promise of writeText settles and the suspended export i resumes
ClipboardSettles(i, copied, now, writeOk) ==
    /\ i \in 1..Len(pendingExports)
    /\ Len(runtimePaths) < capacity
    /\ UNCHANGED <<currentPolyline, tally, capacity>>
    /\ pendingExports' = [k \in 1..(Len(pendingExports) - 1) |->
                            IF k < i THEN pendingExports[k] ELSE pendingExports[k + 1]]
    /\ AddToStore("exportResume", AsRecordInput(pendingExports[i]), now, writeOk, FALSE,
                  IF copied THEN "Path exported and copied to clipboard"
                            ELSE "Exported but clipboard copy failed")
    /\ UNCHANGED <<campusMap, drawModeEnabled, currentPathPoints, mapClickHandler,
                   drawIdCounter, loadedRaw>>
    /\ UNCHANGED <<drawView, pageVars>>

\* --------------------------------------------------------------- render
\* what renderPathsFromData and initialize are given: null, the object
\* loadCampusData returns when the fetch fails (no paths array), campus data
\* with a paths array
DataKinds == {"null", "noPaths", "paths"}

NoLayers == [registered |-> {}, orphans |-> {}]

\* rpaths.forEach of renderPathsFromData from element i on: a wrapper for
\* every record with at least one point, registered under the record's id
RECURSIVE RenderRuntimePaths(_, _, _)
RenderRuntimePaths(paths, i, layers) ==
    IF i > Len(paths)
    THEN layers
    ELSE RenderRuntimePaths(paths, i + 1,
                            IF Len(paths[i].points) = 0
                            THEN layers
                            ELSE Register(TRUE, layers, paths[i].id, paths[i].points))

\* renderPathsFromData(data) with a map: the layer and the registry are
\* emptied, and the function returns before the runtime paths unless data has
\* a paths array
RenderLayers(followed, data, paths) ==
    IF ~followed \/ data # "paths"
    THEN NoLayers
    ELSE RenderRuntimePaths(paths, 1, NoLayers)

RenderPathsFromData(data) ==
    /\ result' = Outcome("render", FALSE, 0, "", FALSE)
    /\ IF ~campusMap
       THEN UNCHANGED <<runtimePathLayers, orphanLayers>>
       ELSE /\ runtimePathLayers' =
                  RenderLayers(layersFollowed, data, runtimePaths).registered
            /\ orphanLayers' = RenderLayers(layersFollowed, data, runtimePaths).orphans
    /\ UNCHANGED <<campusMap, capacity, listRows, drawVars, storeVars, drawView, pageVars>>

\* initialize of the page once loadCampusData has resolved: initializeMap,
\* renderPathsFromData(data), then the draw buttons (disabled), the toggles
\* (edit mode off) and the list with its first rebuild
Initialize(data) ==
    /\ ~campusMap
    /\ campusMap' = TRUE
    /\ result' = Outcome("initialize", FALSE, 0, "", FALSE)
    /\ runtimePathLayers' = RenderLayers(layersFollowed, data, runtimePaths).registered
    /\ orphanLayers' = RenderLayers(layersFollowed, data, runtimePaths).orphans
    /\ listRows' = [exists |-> TRUE, rows |-> Rebuild(runtimePaths)]
    /\ editUi' = [created |-> TRUE, layerVisible |-> FALSE, buttonsEnabled |-> FALSE]
    /\ UNCHANGED <<capacity, drawVars, storeVars, drawView, tabB, layersFollowed>>

\* ------------------------------------------------------------ edit mode
\* a change handler that also stops the drawing session when the checkbox is
\* switched off
SetEditModeStopping(enabled) ==
    /\ editUi.created
    /\ result' = Outcome("setEditMode", FALSE, 0, "", FALSE)
    /\ editUi' = [created |-> TRUE, layerVisible |-> enabled, buttonsEnabled |-> enabled]
    /\ drawModeEnabled' = (enabled /\ drawModeEnabled)
    /\ mapClickHandler' = (enabled /\ mapClickHandler)
    /\ clickListeners' = IF enabled THEN clickListeners ELSE 0
    /\ UNCHANGED <<campusMap, capacity, currentPathPoints, currentPolyline, drawIdCounter,
                   pendingExports, tally, drawnLines, storeVars, storeView,
                   tabB, layersFollowed>>

\* the change handler of the "Mod editare trasee" checkbox
SetEditMode(enabled) ==
    /\ editUi.created
    /\ result' = Outcome("setEditMode", FALSE, 0, "", FALSE)
    /\ editUi' = [created |-> TRUE, layerVisible |-> enabled, buttonsEnabled |-> enabled]
    /\ UNCHANGED <<campusMap, capacity, drawVars, storeVars, drawView, storeView,
                   tabB, layersFollowed>>

\* a click on one of the five draw buttons reaches its handler while the
\* button is not disabled
Button(handler) ==
    /\ editUi.buttonsEnabled
    /\ handler

\* ------------------------------------------------------------ second tab
\* the page is loaded (or reloaded) in a second tab: its script load reads
\* the same storage key
OpenTabB ==
    /\ tabB' = [open |-> TRUE,
                paths |-> LoadRuntimePathsFromStorage(storage, TRUE).value]
    /\ result' = Outcome("openB", FALSE, 0, "", FALSE)
    /\ UNCHANGED <<campusMap, capacity, drawVars, storeVars, drawView, storeView,
                   editUi, layersFollowed>>

\* an addPathObject in the second tab that reads the stored array again and
\* appends to it, merging the writes of the two tabs
AddInTabBMerging(obj, now) ==
    /\ tabB.open
    /\ AddAccepts(obj)
    /\ Len(LoadRuntimePathsFromStorage(storage, TRUE).value) < capacity
    /\ tabB' = [tabB EXCEPT !.paths =
                   Append(LoadRuntimePathsFromStorage(storage, TRUE).value,
                          AddRecord(obj, now))]
    /\ storage' = SaveRuntimePathsToStorage(tabB'.paths, storage, TRUE)
    /\ result' = Outcome("addB", FALSE, 0, "", FALSE)
    /\ UNCHANGED <<campusMap, capacity, drawVars, runtimePaths, storageFailed, loadedRaw,
                   drawView, storeView, editUi, layersFollowed>>

\* addPathObject(obj) in the second tab: the push and the save of that tab's
\* window.runtimePaths
AddInTabB(obj, now) ==
    /\ tabB.open
    /\ AddAccepts(obj)
    /\ Len(tabB.paths) < capacity
    /\ tabB' = [tabB EXCEPT !.paths = Append(tabB.paths, AddRecord(obj, now))]
    /\ storage' = SaveRuntimePathsToStorage(tabB'.paths, storage, TRUE)
    /\ result' = Outcome("addB", FALSE, 0, "", FALSE)
    /\ UNCHANGED <<campusMap, capacity, drawVars, runtimePaths, storageFailed, loadedRaw,
                   drawView, storeView, editUi, layersFollowed>>

\* ---------------------------------------------------------- specifications
\* every handler and event, over a localStorage whose accesses succeed
Next ==
    \/ Reload(TRUE)
    \/ InitializeMap
    \/ EnableDrawMode
    \/ DisableDrawMode
    \/ \E p \in ClickPoints : MapClick(p)
    \/ UndoLastPoint
    \/ ClearCurrentPath
    \/ \E obj \in AddInputs, now \in Timestamps : AddPathObject(obj, now, TRUE)
    \/ \E id \in RemoveIds : RemovePathById(id, TRUE)
    \/ ClearPersistedRuntimePaths(TRUE)
    \/ \E clipboard \in {"none", "throws", "pending"}, now \in Timestamps :
          ExportCurrentPath(clipboard, now, TRUE)
    \/ \E i \in DOMAIN pendingExports, copied \in BOOLEAN, now \in Timestamps :
          ClipboardSettles(i, copied, now, TRUE)

Spec == Init /\ [][Next]_vars

\* the path store over a localStorage of which any access may throw
NextFaults ==
    \/ \E readOk \in BOOLEAN : Reload(readOk)
    \/ InitializeMap
    \/ \E obj \in AddInputs, now \in Timestamps, writeOk \in BOOLEAN :
          AddPathObject(obj, now, writeOk)
    \/ \E id \in RemoveIds, writeOk \in BOOLEAN : RemovePathById(id, writeOk)
    \/ \E writeOk \in BOOLEAN : ClearPersistedRuntimePaths(writeOk)

SpecFaults == Init /\ [][NextFaults]_vars

\* the draw session controller alone, with its clicks, undos and clears counted
NextDraft ==
    \/ Reload(TRUE)
    \/ InitializeMap
    \/ EnableDrawMode
    \/ DisableDrawMode
    \/ \E p \in ClickPoints : MapClick(p)
    \/ UndoLastPoint
    \/ ClearCurrentPath

SpecDraft == InitWith(MaxStore, TRUE, FALSE) /\ [][NextDraft]_vars

\* the path store over a localStorage that works, one record deeper, with the
\* exports that do not wait for the clipboard
NextStore ==
    \/ Reload(TRUE)
    \/ InitializeMap
    \/ EnableDrawMode
    \/ \E p \in ClickPoints : MapClick(p)
    \/ \E obj \in AddInputs, now \in Timestamps : AddPathObject(obj, now, TRUE)
    \/ \E id \in RemoveIds : RemovePathById(id, TRUE)
    \/ ClearPersistedRuntimePaths(TRUE)
    \/ \E clipboard \in {"none", "throws"}, now \in Timestamps :
          ExportCurrentPath(clipboard, now, TRUE)

SpecStore == InitWith(MaxStore + 1, FALSE, FALSE) /\ [][NextStore]_vars

\* the page with its overlays and its list: the path store and the renderer
NextOverlay ==
    \/ Reload(TRUE)
    \/ \E data \in DataKinds \ {"null"} : Initialize(data)
    \/ \E data \in DataKinds : RenderPathsFromData(data)
    \/ \E obj \in AddInputs, now \in Timestamps : AddPathObject(obj, now, TRUE)
    \/ \E id \in RemoveIds : RemovePathById(id, TRUE)
    \/ ClearPersistedRuntimePaths(TRUE)

SpecOverlay == InitWith(MaxStore, FALSE, TRUE) /\ [][NextOverlay]_vars

\* the page with its edit-mode toggle: the draw buttons and the map clicks
NextEdit ==
    \/ Reload(TRUE)
    \/ Initialize("paths")
    \/ \E enabled \in BOOLEAN : SetEditMode(enabled)
    \/ Button(EnableDrawMode)
    \/ Button(DisableDrawMode)
    \/ Button(UndoLastPoint)
    \/ Button(ClearCurrentPath)
    \/ \E p \in ClickPoints : MapClick(p)

SpecEdit == InitWith(MaxStore, FALSE, FALSE) /\ [][NextEdit]_vars

\* two tabs on one storage key, each adding records
NextTabs ==
    \/ Reload(TRUE)
    \/ InitializeMap
    \/ OpenTabB
    \/ \E obj \in AddInputs, now \in Timestamps : AddPathObject(obj, now, TRUE)
    \/ \E obj \in AddInputs, now \in Timestamps : AddInTabB(obj, now)

SpecTabs == InitWith(MaxStore, FALSE, FALSE) /\ [][NextTabs]_vars

\* ------------------------------------------------------------------ claims
Ids(paths) == {paths[i].id : i \in 1..Len(paths)}
SetOf(seq) == {seq[i] : i \in 1..Len(seq)}
Last(seq) == seq[Len(seq)]

\* r is c rounded to 6 decimals: a multiple of 1e-6 nearest to c, and the one
\* farther from zero when c is half-way between two
RoundedTo6(c, r) ==
    /\ r % 10 = 0
    /\ Abs(c - r) <= 5
    /\ Abs(c - r) = 5 => Abs(r) > Abs(c)

\* rec is what export makes of the draft points
IsExportOf(rec, points) ==
    /\ rec.type = "pedestrian"
    /\ Len(rec.points) = Len(points)
    /\ \A i \in 1..Len(points) :
          /\ RoundedTo6(points[i][1], rec.points[i][1])
          /\ RoundedTo6(points[i][2], rec.points[i][2])

\* C1: in every reachable state no two records of the Path Store have the
\* same id
C1_IdsUnique ==
    \A i, j \in 1..Len(runtimePaths) :
        i # j => runtimePaths[i].id # runtimePaths[j].id

\* C2: the record export() has just inserted has an id that differs from the
\* id of every record that was in the Path Store before it
C2_ExportIdFresh ==
    (result.op \in {"export", "exportResume"} /\ result.dispatched = 1)
        => \A i \in 1..(Len(runtimePaths) - 1) :
              runtimePaths[i].id # Last(runtimePaths).id

\* C3: export() on a draft of n >= 1 points adds exactly one record at the end
\* of the Path Store, of type 'pedestrian', whose points are the draft points
\* in order, each rounded to 6 decimals, and leaves the draft and the
\* Idle/Drawing state unchanged; when it waits for the clipboard the record is
\* the one held while waiting and is added when the wait ends
C3_ExportAddsRecord ==
    [][ /\ (result'.op = "export" /\ Len(currentPathPoints) >= 1)
            => /\ Len(runtimePaths') = Len(runtimePaths) + 1
               /\ SubSeq(runtimePaths', 1, Len(runtimePaths)) = runtimePaths
               /\ IsExportOf(Last(runtimePaths'), currentPathPoints)
               /\ UNCHANGED <<currentPathPoints, drawModeEnabled, mapClickHandler>>
        /\ result'.op = "exportAwait"
            => /\ Len(currentPathPoints) >= 1
               /\ Len(pendingExports') = Len(pendingExports) + 1
               /\ IsExportOf(Last(pendingExports'), currentPathPoints)
               /\ UNCHANGED <<runtimePaths, currentPathPoints, drawModeEnabled,
                              mapClickHandler>>
        /\ result'.op = "exportResume"
            => /\ \E i \in 1..Len(pendingExports) :
                     runtimePaths' = Append(runtimePaths, pendingExports[i])
               /\ UNCHANGED <<currentPathPoints, drawModeEnabled, mapClickHandler>>
      ]_vars

\* export has just run, in Drawing, on the draft (45.0, 21.0),
\* (45.1000004, -21.1000005), and the store ends with its rounded points
C3_Witness ==
    /\ result.op = "export"
    /\ drawModeEnabled
    /\ currentPathPoints = << <<450000000, 210000000>>, <<451000004, -211000005>> >>
    /\ Len(runtimePaths) = 2
    /\ Last(runtimePaths).points =
          << <<450000000, 210000000>>, <<451000000, -211000010>> >>

\* C4: export() on an empty draft shows 'No points to export' and changes
\* nothing: store, persisted value, id counter, draft, Idle/Drawing state and
\* suspended exports are as before, no pathsUpdated event is dispatched and no
\* exception escapes
C4_ExportEmptyChangesNothing ==
    [][ (Len(currentPathPoints) = 0
         /\ result'.op \in {"export", "exportAwait"})
            => /\ result'.op = "export"
               /\ result'.msg = "No points to export"
               /\ result'.dispatched = 0
               /\ ~result'.threw
               /\ UNCHANGED <<runtimePaths, storage, drawIdCounter, currentPathPoints,
                              drawModeEnabled, mapClickHandler, pendingExports>>
      ]_vars

\* export has just refused an empty draft, in Drawing, over a store of records
C4_Witness ==
    /\ result.op = "export"
    /\ result.msg = "No points to export"
    /\ drawModeEnabled
    /\ Len(currentPathPoints) = 0
    /\ Len(runtimePaths) >= 1

\* C5: every record of the Path Store has at least one point
C5_RecordsHavePoints ==
    \A i \in 1..Len(runtimePaths) : Len(runtimePaths[i].points) >= 1

\* C6: while no localStorage access of the session has thrown, loading the
\* persisted value yields the same set of {id, type, points} records as the
\* store holds, and the persisted value of a non-empty store is its
\* serialization
C6_RoundTrip ==
    ~storageFailed
        => /\ SetOf(LoadRuntimePathsFromStorage(storage, TRUE).value) = SetOf(runtimePaths)
           /\ Len(LoadRuntimePathsFromStorage(storage, TRUE).value) = Len(runtimePaths)
           /\ runtimePaths # << >> => storage = StringifyPaths(runtimePaths)

\* a session has just loaded two records, one exported and one without a type
C6_Witness ==
    /\ result.op = "load"
    /\ loadedRaw = "array"
    /\ Len(runtimePaths) = 2
    /\ \E i, j \in 1..2 :
          /\ runtimePaths[i].id = "path_1"
          /\ runtimePaths[j].type = Undefined

\* C7: a load that finds the key absent, a string that is not JSON, JSON that
\* is not an array, or whose read throws, yields the empty store, and no load
\* lets an exception escape
C7_LoadTolerant ==
    result.op = "load"
        => /\ ~result.threw
           /\ loadedRaw \in {"absent", "notjson", "object", "throws"}
                 => runtimePaths = << >>

\* a load whose read threw while the key held an array of records
C7_Witness ==
    /\ result.op = "load"
    /\ loadedRaw = "throws"
    /\ storage.kind = "array"
    /\ Len(storage.items) >= 1

\* C8: remove(id) twice leaves the same store and persisted value as remove(id)
\* once, and remove of an id that is not in the store leaves the store as it is
C8_RemoveIdempotent ==
    \A id \in RemoveIds :
        LET once == RemovePathByIdResult(runtimePaths, storage, id, TRUE)
            twice == RemovePathByIdResult(once.paths, once.storage, id, TRUE)
        IN /\ twice = once
           /\ id \notin Ids(runtimePaths) => once.paths = runtimePaths

C10_ExportRunsToCompletion ==
    [][ Len(pendingExports) > 0
            => \/ result'.op \in {"exportResume", "load"}
               \/ UNCHANGED <<currentPathPoints, drawModeEnabled, mapClickHandler,
                              drawIdCounter, runtimePaths, storage>>
      ]_vars

\* the messages exportCurrentPath shows when the copy to the clipboard did not
\* happen
ClipboardFailureMessages ==
    {"Path exported (clipboard not available)", "Exported but clipboard copy failed"}

\* C11: an export of a non-empty draft whose clipboard copy is unavailable or
\* fails still appends its record to the store, persists the store, emits the
\* changed notification once and lets no exception out; the records already
\* in the store, the draft and the id counter are not taken back
C11_ClipboardFailureKeepsExport ==
    [][ result'.msg \in ClipboardFailureMessages
            => /\ Len(runtimePaths') = Len(runtimePaths) + 1
               /\ SubSeq(runtimePaths', 1, Len(runtimePaths)) = runtimePaths
               /\ result'.op = "export"
                     => IsExportOf(Last(runtimePaths'), currentPathPoints)
               /\ result'.op = "exportResume"
                     => \E i \in DOMAIN pendingExports :
                          /\ Last(runtimePaths').id = pendingExports[i].id
                          /\ Last(runtimePaths').points = pendingExports[i].points
               /\ LoadRuntimePathsFromStorage(storage', TRUE).value = runtimePaths'
               /\ result'.dispatched = 1
               /\ ~result'.threw
               /\ drawIdCounter' >= drawIdCounter
               /\ currentPathPoints' = currentPathPoints
      ]_vars

\* an export of a two-point draft has just found no clipboard and its record
\* is the last of the store
C11_Witness ==
    /\ result.op = "export"
    /\ result.msg = "Path exported (clipboard not available)"
    /\ Len(currentPathPoints) = 2
    /\ Len(runtimePaths) >= 1
    /\ IsExportOf(Last(runtimePaths), currentPathPoints)

\* C12: an add, remove or clearAll whose storage write (or key removal) throws
\* still leaves its mutation in the in-memory store, still emits the changed
\* notification once, and lets no exception reach its caller
C12_StorageFaultTolerated ==
    [][ (result'.fault /\ result'.op \in {"add", "remove", "clearAll"})
            => /\ result'.op = "add"
                     => /\ Len(runtimePaths') = Len(runtimePaths) + 1
                        /\ SubSeq(runtimePaths', 1, Len(runtimePaths)) = runtimePaths
               /\ result'.op = "remove"
                     => Len(runtimePaths') = Len(runtimePaths) - result'.removed
               /\ result'.op = "clearAll" => runtimePaths' = << >>
               /\ result'.dispatched = 1
               /\ ~result'.threw
      ]_vars

\* C13: start() in Idle with the map initialised goes to Drawing with an empty
\* draft and the click handler attached, whatever the draft held
C13_StartFromIdle ==
    [][ (result'.op = "start" /\ ~drawModeEnabled /\ campusMap)
            => /\ drawModeEnabled'
               /\ currentPathPoints' = << >>
               /\ mapClickHandler'
      ]_vars

\* start() has just gone from Idle to Drawing and discarded a draft of one point
C13_Witness ==
    /\ result.op = "start"
    /\ result.switched
    /\ result.dropped = 1
    /\ drawModeEnabled
    /\ currentPathPoints = << >>

\* C14: start() in Drawing changes neither the draft, nor the attached click
\* handler, nor the draft overlay, nor the state; a click that follows it is
\* appended to the draft once
C14_StartInDrawingNoOp ==
    [][ /\ (result'.op = "start" /\ drawModeEnabled)
            => UNCHANGED <<currentPathPoints, mapClickHandler, currentPolyline,
                           drawModeEnabled>>
        /\ (result.op = "start" /\ ~result.switched /\ drawModeEnabled
                /\ result'.op = "click")
            => /\ Len(currentPathPoints') = Len(currentPathPoints) + 1
               /\ SubSeq(currentPathPoints', 1, Len(currentPathPoints))
                     = currentPathPoints
      ]_vars

\* start() has just been called in Drawing over a draft of two points, both
\* still there and on the overlay
C14_Witness ==
    /\ result.op = "start"
    /\ ~result.switched
    /\ drawModeEnabled
    /\ mapClickHandler
    /\ Len(currentPathPoints) = 2
    /\ currentPolyline = Polyline(currentPathPoints)

\* C15: stop() in Drawing goes to Idle, detaches the click handler and leaves
\* the draft as it was; stop() in Idle changes nothing
C15_Stop ==
    [][ /\ (result'.op = "stop" /\ drawModeEnabled)
            => /\ ~drawModeEnabled'
               /\ ~mapClickHandler'
               /\ currentPathPoints' = currentPathPoints
        /\ (result'.op = "stop" /\ ~drawModeEnabled)
            => UNCHANGED <<drawModeEnabled, mapClickHandler, currentPathPoints,
                           currentPolyline, campusMap, drawIdCounter, runtimePaths,
                           storage>>
      ]_vars

\* stop() has just gone from Drawing to Idle over a draft of two points
C15_Witness ==
    /\ result.op = "stop"
    /\ result.switched
    /\ ~drawModeEnabled
    /\ ~mapClickHandler
    /\ Len(currentPathPoints) = 2

\* C16: after stop() followed by start(), the points drawn before the stop are
\* still in the draft
C16_ResumeKeepsDraft ==
    [][ (result.op = "stop" /\ result'.op = "start")
            => currentPathPoints' = currentPathPoints
      ]_vars

\* C16 amended: stop() keeps the draft while the session is Idle, the start()
\* that follows a stop() empties it, and the click after that start() makes a
\* draft of that one point
C16_StopKeepsStartResets ==
    [][ /\ result'.op = "stop" => currentPathPoints' = currentPathPoints
        /\ (result.op = "stop" /\ result'.op = "start" /\ campusMap)
            => /\ drawModeEnabled'
               /\ currentPathPoints' = << >>
        /\ (result.op = "start" /\ result.switched /\ result'.op = "click")
            => Len(currentPathPoints') = 1
      ]_vars

\* a start() has just discarded the two points a stopped session had kept
C16_Witness ==
    /\ result.op = "start"
    /\ result.switched
    /\ result.dropped = 2

\* C17: undo() in either state takes exactly the last point off a non-empty
\* draft, keeping the others in order, and changes nothing and throws nothing
\* on an empty draft; it never changes the Idle/Drawing state, the click
\* capture or the store
C17_Undo ==
    [][ result'.op = "undo"
            => /\ Len(currentPathPoints) > 0
                     => /\ Len(currentPathPoints') = Len(currentPathPoints) - 1
                        /\ \A i \in 1..Len(currentPathPoints') :
                              currentPathPoints'[i] = currentPathPoints[i]
               /\ Len(currentPathPoints) = 0 => currentPathPoints' = << >>
               /\ ~result'.threw
               /\ UNCHANGED <<drawModeEnabled, mapClickHandler, runtimePaths, storage>>
      ]_vars

\* undo() has just taken the second point off a stopped session's draft, over
\* a store that holds a record
C17_Witness ==
    /\ result.op = "undo"
    /\ result.dropped = 1
    /\ Len(currentPathPoints) = 1
    /\ ~drawModeEnabled
    /\ Len(runtimePaths) >= 1

\* C18: clear() in either state empties the draft and leaves the Idle/Drawing
\* state and the click capture as they were: the click after a clear() in
\* Drawing makes a draft of exactly one point, the click after a clear() in
\* Idle leaves the draft empty
C18_Clear ==
    [][ /\ result'.op = "clear"
            => /\ currentPathPoints' = << >>
               /\ UNCHANGED <<drawModeEnabled, mapClickHandler>>
        /\ (result.op = "clear" /\ result'.op = "click")
            => IF drawModeEnabled
               THEN Len(currentPathPoints') = 1
               ELSE currentPathPoints' = << >>
      ]_vars

\* clear() has just emptied a draft of two points in Drawing, click capture
\* still attached
C18_Witness ==
    /\ result.op = "clear"
    /\ result.dropped = 2
    /\ drawModeEnabled
    /\ mapClickHandler
    /\ currentPathPoints = << >>

\* C19: the draft length is the number of accepted clicks minus the number of
\* undos minus the number of clears, clamped at 0 (the undos counted are those
\* that found a point to remove)
C19_LengthIsTally ==
    tally.on
        => Len(currentPathPoints) =
              IF tally.clicks - tally.undos - tally.clears > 0
              THEN tally.clicks - tally.undos - tally.clears
              ELSE 0

\* C19 amended: the draft length is never negative; a click with the handler
\* attached adds one to it and any other click leaves it, an undo takes one
\* off a non-empty draft, stop() and a start() that does not leave Idle leave
\* it, and clear() and a start() from Idle set it to 0 whatever it was
C19_LengthSteps ==
    [][ /\ Len(currentPathPoints') >= 0
        /\ result'.op = "click"
            => Len(currentPathPoints') =
                  Len(currentPathPoints) + (IF mapClickHandler THEN 1 ELSE 0)
        /\ result'.op = "undo"
            => Len(currentPathPoints') =
                  IF Len(currentPathPoints) > 0 THEN Len(currentPathPoints) - 1 ELSE 0
        /\ result'.op = "clear" => Len(currentPathPoints') = 0
        /\ result'.op = "stop" => Len(currentPathPoints') = Len(currentPathPoints)
        /\ result'.op = "start"
            => Len(currentPathPoints') =
                  IF campusMap /\ ~drawModeEnabled THEN 0 ELSE Len(currentPathPoints)
      ]_vars

\* two clicks were accepted and one clear() has just emptied the draft: the
\* length is 0 where the difference is 1
C19_Witness ==
    /\ tally.on
    /\ tally.clicks = 2
    /\ tally.undos = 0
    /\ tally.clears = 1
    /\ result.op = "clear"
    /\ Len(currentPathPoints) = 0

\* seq without its k-th element (seq itself for k = 0)
RemovedAt(seq, k) ==
    IF k = 0
    THEN seq
    ELSE [i \in 1..(Len(seq) - 1) |-> IF i < k THEN seq[i] ELSE seq[i + 1]]

\* C20: the list shows the records in insertion order: an add or export that
\* inserts puts its row after the rows already there, a remove takes at most
\* one row out and keeps the others in their order, and the list built from
\* the persisted value after these operations is the same list
C20_InsertionOrder ==
    [][ /\ (result'.op \in {"add", "export"} /\ runtimePaths' # runtimePaths)
            => /\ Len(runtimePaths') = Len(runtimePaths) + 1
               /\ SubSeq(Rebuild(runtimePaths'), 1, Len(runtimePaths))
                     = Rebuild(runtimePaths)
        /\ result'.op = "remove"
            => \E k \in 0..Len(runtimePaths) :
                  /\ runtimePaths' = RemovedAt(runtimePaths, k)
                  /\ Rebuild(runtimePaths') = RemovedAt(Rebuild(runtimePaths), k)
        /\ result'.op \in {"add", "export", "remove"}
            => Rebuild(LoadRuntimePathsFromStorage(storage', TRUE).value)
                  = Rebuild(runtimePaths')
      ]_vars

\* a remove has just taken one record out of a store of three, and the two
\* left have different rows
C20_Witness ==
    /\ result.op = "remove"
    /\ result.removed = 1
    /\ Len(runtimePaths) = 2
    /\ Rebuild(runtimePaths)[1] # Rebuild(runtimePaths)[2]

\* C21: every add, remove and clearAll that changes the store persists it and
\* emits one changed notification, and when it has returned the sidebar list
\* shows the records of the store, in store order
C21_MutationNotifiesList ==
    [][ (result'.op \in {"add", "remove", "clearAll"} /\ runtimePaths' # runtimePaths)
            => /\ LoadRuntimePathsFromStorage(storage', TRUE).value = runtimePaths'
               /\ result'.dispatched = 1
               /\ listRows'.exists => listRows'.rows = Rebuild(runtimePaths')
      ]_vars

\* the wrappers of runtime paths that are on missingRoadsLayer
OverlaysOnMap == runtimePathLayers \cup orphanLayers

\* C22: once the page has rendered, a bordered line for a runtime path is on
\* the map if and only if its record is in the store: every stored record has
\* a line with its id and points, and every line has its record
C22_OverlaysMatchStore ==
    campusMap
        => /\ \A i \in 1..Len(runtimePaths) :
                 Layer(runtimePaths[i].id, runtimePaths[i].points) \in OverlaysOnMap
           /\ \A w \in OverlaysOnMap :
                 \E i \in 1..Len(runtimePaths) :
                    w = Layer(runtimePaths[i].id, runtimePaths[i].points)

\* C27: renderPathsFromData(data) with the map initialised draws a bordered
\* line for every stored record that has at least one point and registers a
\* wrapper under the record's id, whatever data is
C27_RenderDrawsStore ==
    [][ (result'.op = "render" /\ campusMap)
            => \A i \in 1..Len(runtimePaths) :
                  Len(runtimePaths[i].points) > 0
                     => /\ Layer(runtimePaths[i].id, runtimePaths[i].points)
                              \in runtimePathLayers' \cup orphanLayers'
                        /\ \E w \in runtimePathLayers' : w.id = runtimePaths[i].id
      ]_vars

\* C23: the drawn-paths layer holds at most one draft line, the one of
\* currentPolyline, whose points are the current draft; no line left by an
\* earlier start() remains on it
C23_OneDraftLine ==
    tally.on
        => /\ drawnLines = {}
           /\ currentPolyline.exists => currentPolyline.latlngs = currentPathPoints

\* C28: at most one click listener is on the map, and one is there exactly
\* when the state is Drawing; a map click in Drawing appends exactly one point
\* at the end of the draft, a map click in Idle leaves the draft as it was
C28_OneClickHandler ==
    [][ /\ clickListeners' <= 1
        /\ (clickListeners' = 1) = drawModeEnabled'
        /\ mapClickHandler' = drawModeEnabled'
        /\ result'.op = "click"
            => IF drawModeEnabled
               THEN \E p \in ClickPoints :
                       currentPathPoints' = Append(currentPathPoints, p)
               ELSE currentPathPoints' = currentPathPoints
      ]_vars

\* a click in Drawing has just been appended as the second, different point of
\* the draft, with one listener on the map
C28_Witness ==
    /\ result.op = "click"
    /\ drawModeEnabled
    /\ clickListeners = 1
    /\ Len(currentPathPoints) = 2
    /\ currentPathPoints[1] # currentPathPoints[2]

\* C29: the record an export inserts holds the draft points as they were when
\* export() was called: the payload is built from the draft at the call, no
\* click, undo, clear, start or stop changes a payload that waits for the
\* clipboard, and the resumption inserts one waiting payload as it is
C29_ExportSnapshot ==
    [][ /\ result'.op = "exportAwait"
            => /\ Len(pendingExports') = Len(pendingExports) + 1
               /\ SubSeq(pendingExports', 1, Len(pendingExports)) = pendingExports
               /\ IsExportOf(Last(pendingExports'), currentPathPoints)
        /\ result'.op \in {"click", "undo", "clear", "start", "stop"}
            => pendingExports' = pendingExports
        /\ result'.op = "exportResume"
            => \E i \in DOMAIN pendingExports :
                  /\ Last(runtimePaths').id = pendingExports[i].id
                  /\ Last(runtimePaths').type = pendingExports[i].type
                  /\ Last(runtimePaths').points = pendingExports[i].points
                  /\ pendingExports' = RemovedAt(pendingExports, i)
      ]_vars

\* an export called on a draft of two points has just inserted its record
\* after the draft was emptied
C29_Witness ==
    /\ result.op = "exportResume"
    /\ Len(runtimePaths) >= 1
    /\ Len(Last(runtimePaths).points) = 2
    /\ currentPathPoints = << >>

\* C24: a record in the store is never changed: every step other than a
\* remove or clearAll keeps the records of the store as they are, in place,
\* and a remove takes at most one record out and keeps the others as they are
C24_RecordsImmutable ==
    [][ /\ result'.op \notin {"remove", "clearAll"}
            => /\ Len(runtimePaths') >= Len(runtimePaths)
               /\ SubSeq(runtimePaths', 1, Len(runtimePaths)) = runtimePaths
        /\ result'.op = "remove"
            => \E k \in 0..Len(runtimePaths) : runtimePaths' = RemovedAt(runtimePaths, k)
      ]_vars

\* an undo has just shortened the draft a two-point record was exported from,
\* and the record still has its two points
C24_Witness ==
    /\ result.op = "undo"
    /\ result.dropped = 1
    /\ Len(currentPathPoints) = 1
    /\ Len(runtimePaths) >= 1
    /\ Last(runtimePaths).type = "pedestrian"
    /\ Len(Last(runtimePaths).points) = 2

\* isValidCoordinate(lat, lon) of utils.js, on coordinates in 1e-7 degree
isValidCoordinate(lat, lon) ==
    /\ lat >= -900000000 /\ lat <= 900000000
    /\ lon >= -1800000000 /\ lon <= 1800000000

\* C25: every point of every stored record has its latitude in [-90, 90] and
\* its longitude in [-180, 180]
C25_StoredPointsInBounds ==
    \A i \in DOMAIN runtimePaths :
        \A k \in DOMAIN runtimePaths[i].points :
            isValidCoordinate(runtimePaths[i].points[k][1], runtimePaths[i].points[k][2])

\* C26: with two tabs on one origin the last writer wins: after an add in
\* either tab the stored array is that tab's store, which is the tab's store
\* of before the add with the one new record at its end
C26_LastWriterWins ==
    [][ /\ result'.op = "add" /\ runtimePaths' # runtimePaths
            => /\ LoadRuntimePathsFromStorage(storage', TRUE).value = runtimePaths'
               /\ Len(runtimePaths') = Len(runtimePaths) + 1
               /\ SubSeq(runtimePaths', 1, Len(runtimePaths)) = runtimePaths
        /\ result'.op = "addB"
            => /\ LoadRuntimePathsFromStorage(storage', TRUE).value = tabB'.paths
               /\ Len(tabB'.paths) = Len(tabB.paths) + 1
               /\ SubSeq(tabB'.paths, 1, Len(tabB.paths)) = tabB.paths
      ]_vars

\* both tabs opened on an empty store and each added one record; the second
\* tab wrote last and the stored array holds its record alone
C26_Witness ==
    /\ result.op = "addB"
    /\ Len(runtimePaths) = 1
    /\ Len(tabB.paths) = 1
    /\ runtimePaths[1].id # tabB.paths[1].id
    /\ LoadRuntimePathsFromStorage(storage, TRUE).value = tabB.paths

\* C30: a change of the edit-mode checkbox sets the visibility of the drawn
\* paths layer and the enabled state of the draw buttons to the checkbox's
\* value and leaves the drawing state, the click capture, the draft and the
\* path store as they are; a map click in a drawing session appends one point
\* to the draft while edit mode is off
C30_EditModeFrame ==
    [][ /\ result'.op = "setEditMode"
            => /\ editUi'.layerVisible = editUi'.buttonsEnabled
               /\ UNCHANGED <<drawModeEnabled, mapClickHandler, clickListeners,
                              currentPathPoints, currentPolyline, runtimePaths,
                              storage>>
        /\ result'.op = "click" /\ drawModeEnabled /\ ~editUi.buttonsEnabled
            => /\ Len(currentPathPoints') = Len(currentPathPoints) + 1
               /\ SubSeq(currentPathPoints', 1, Len(currentPathPoints)) = currentPathPoints
      ]_vars

\* edit mode was switched off during a drawing session and a map click has
\* since been appended to the draft
C30_Witness ==
    /\ result.op = "click"
    /\ editUi.created
    /\ ~editUi.layerVisible
    /\ ~editUi.buttonsEnabled
    /\ drawModeEnabled
    /\ Len(currentPathPoints) = 2

====
